---- MODULE Spec2Model ----
(***************************************************************************)
(* Model of the stock-data proxy of pages/api/stockData.js: the            *)
(* module-level cache (an insertion-ordered Map), the request handler up   *)
(* to its await of the upstream call, and the continuation that reshapes   *)
(* the upstream payload, stores it, evicts and answers; and of the chart   *)
(* page's aggregateData, which folds daily bars into weekly or monthly     *)
(* bars; and of the chart pages' pager: its index, its fetches in flight   *)
(* and its loading and error states.                                       *)
(*                                                                         *)
(* Conventions.                                                            *)
(*  - A JavaScript string is a sequence of tokens; a token stands for a    *)
(*    piece of text ("A", "-", "undefined").                               *)
(*  - An optional JavaScript value (a query parameter that may be absent,  *)
(*    an array slot that may be null) is a sequence of length 0 or 1.      *)
(*  - Upstream numbers are integers in thousandths; reshaped prices are in *)
(*    hundredths (toFixed(2)), reshaped volumes in whole units (parseInt). *)
(*  - An ISO date is the number of the UTC day it names.                   *)
(*  - An array is the sequence of its elements: the array a cache hit     *)
(*    answers with is the array stored under the key.                      *)
(*  - inserted and evicted are history variables: the keys the cache       *)
(*    gained as new entries and the keys it lost, in order.  reply[r] is   *)
(*    what the upstream call of slot r settled with.                       *)
(*  - A bar's time is in epoch seconds, a Date is its instant in epoch     *)
(*    seconds, and the browser's time zone is a fixed offset from UTC in   *)
(*    seconds; a period key is a tuple: <<day>> for the ISO date of a      *)
(*    week's start, <<year, month>> for a month.                           *)
(*  - formattedData is the array aggregateData is called with, as its     *)
(*    elements are at the moment; periodMap and aggregatedData are the function's       *)
(*    locals when it returns.                                              *)
(***************************************************************************)
EXTENDS Integers, Sequences, FiniteSets, TLC

VARIABLES cache, pc, req, res, calls, reply, upstreamCalls, inserted, evicted,
          formattedData, interval, timeZone, sorts, returned, periodMap, aggregatedData,
          page, stockSymbols, selectedIndex, currentIndex, selectedPeriod,
          selectedInterval, chartData, loading, pageError, rendered, inFlight,
          cleanSuccess

proxyVars == <<cache, pc, req, res, calls, reply, upstreamCalls, inserted, evicted>>

aggVars == <<formattedData, interval, timeZone, sorts, returned, periodMap, aggregatedData>>

pagerVars == <<page, stockSymbols, selectedIndex, currentIndex, selectedPeriod,
               selectedInterval, chartData, loading, pageError, rendered, inFlight,
               cleanSuccess>>

vars == <<proxyVars, aggVars, pagerVars>>

(***************************************************************************)
(* Bounds of the model and constants of the program.                       *)
(***************************************************************************)
MaxInFlight == 2
MaxCalls == 3
FillExtra == 3
MaxBars == 2
MaxSeries == 3
MaxSymbols == 3
MaxFetches == 2
MaxClicks == 2
MaxCacheSize == 100
SecondsPerDay == 86400

Slots == 1..MaxInFlight

(***************************************************************************)
(* JavaScript values.                                                      *)
(***************************************************************************)
None == <<>>
Some(v) == <<v>>

\* (variant: only null and undefined are dropped, 0 is kept)
IsNullNumber(v) == v = None

\* !v for a number that may be null or undefined: null, undefined and 0 are falsy.
IsFalsyNumber(v) == v = None \/ v[1] = 0

\* (variant: only an absent parameter counts, as in symbol === undefined)
IsUndefinedString(s) == s = None

\* !s for a query parameter: undefined and the empty string are falsy.
IsFalsyString(s) == s = None \/ s[1] = <<>>

\* `${s}` : an absent parameter is rendered as the text "undefined".
TemplateString(s) == IF s = None THEN <<"undefined">> ELSE s[1]

(***************************************************************************)
(* The cache: a Map, modelled as the sequence of its entries in iteration  *)
(* (insertion) order.                                                      *)
(***************************************************************************)
CacheKeys(c) == [i \in 1..Len(c) |-> c[i].key]

\* (variant: the scan stops one entry short and misses the newest entry)
CacheHasButNewest(c, k) == \E i \in 1..(Len(c) - 1) : c[i].key = k

CacheHas(c, k) == \E i \in 1..Len(c) : c[i].key = k

CacheGet(c, k) == c[CHOOSE i \in 1..Len(c) : c[i].key = k].value

\* (variant: every set appends an entry, as a push onto an array would)
CacheSetAppend(c, k, v) == Append(c, [key |-> k, value |-> v])

\* (variant: a set of an existing key moves it to the end, as delete + set would)
CacheSetMoveToEnd(c, k, v) ==
    Append(SelectSeq(c, LAMBDA e : e.key # k), [key |-> k, value |-> v])

\* Map.prototype.set: an existing key keeps its position and gets the new value,
\* a new key is appended.
CacheSet(c, k, v) ==
    IF CacheHas(c, k)
    THEN [i \in 1..Len(c) |-> IF c[i].key = k THEN [key |-> k, value |-> v] ELSE c[i]]
    ELSE Append(c, [key |-> k, value |-> v])

\* (variant: the last key of the iteration instead of the first)
NewestKey(c) == c[Len(c)].key

\* cache.keys().next().value
OldestKey(c) == c[1].key

\* Map.prototype.delete
CacheDelete(c, k) == SelectSeq(c, LAMBDA e : e.key # k)

\* (variant: the oldest entry is dropped as soon as the cache is full)
NeedsEvictionEarly(c) == Len(c) >= MaxCacheSize

\* (variant: the threshold is off by one)
NeedsEvictionLate(c) == Len(c) > MaxCacheSize + 1

\* if (cache.size > 100) { delete the oldest key }
NeedsEviction(c) == Len(c) > MaxCacheSize

EvictOldest(c) == IF NeedsEviction(c) THEN CacheDelete(c, OldestKey(c)) ELSE c

(***************************************************************************)
(* The handler's pure parts.                                               *)
(***************************************************************************)
\* (variant: the time part of a date is left out of the key)
CacheKeyByDay(q) ==
    TemplateString(q.symbol) \o <<"-">>
        \o SelectSeq(TemplateString(q.startDate), LAMBDA token : token # "T00:00:00.000Z")
        \o <<"-">>
        \o SelectSeq(TemplateString(q.endDate), LAMBDA token : token # "T00:00:00.000Z")

\* const cacheKey = `${symbol}-${startDate}-${endDate}`
CacheKey(q) ==
    TemplateString(q.symbol) \o <<"-">> \o TemplateString(q.startDate)
        \o <<"-">> \o TemplateString(q.endDate)

\* the day a date token names, if it names one
DayOfToken(token) ==
    IF token = "D1" THEN Some(1) ELSE IF token = "D2" THEN Some(2) ELSE None

\* getUnixTimestamp: Math.floor(new Date(dateString).getTime() / 1000); a
\* date alone is midnight UTC of its day, as is the date followed by
\* T00:00:00.000Z; anything else, an absent parameter included, is an
\* invalid date and gives NaN (None)
GetUnixTimestamp(dateString) ==
    LET tokens == TemplateString(dateString)
    IN  IF Len(tokens) \in {1, 2} /\ DayOfToken(tokens[1]) # None
           /\ (Len(tokens) = 2 => tokens[2] = "T00:00:00.000Z")
        THEN Some(DayOfToken(tokens[1])[1] * SecondsPerDay)
        ELSE None

\* what the handler asks upstream for: formattedSymbol, period1, period2
UpstreamRequest(q) ==
    [formattedSymbol |-> TemplateString(q.symbol) \o <<".NS">>,
     period1 |-> GetUnixTimestamp(q.startDate),
     period2 |-> GetUnixTimestamp(q.endDate)]

\* (variant: POST is let through as well)
MethodAllowedGetOrPost(m) == m \in {"GET", "POST"}

MethodAllowed(m) == m = "GET"

\* new Date(timestamp * 1000).toISOString().split('T')[0]
IsoDate(timestamp) == timestamp \div SecondsPerDay

\* parseFloat(x.toFixed(2)): thousandths rounded to the nearest hundredth
ToFixed2(x) == (x + 5) \div 10

\* parseInt(x): thousandths truncated to whole units
ParseInt(x) == x \div 1000

\* the guard of the map callback: every one of the five fields is truthy
IsComplete(ohlcv, index) ==
    /\ ~IsFalsyNumber(ohlcv.open[index])
    /\ ~IsFalsyNumber(ohlcv.high[index])
    /\ ~IsFalsyNumber(ohlcv.low[index])
    /\ ~IsFalsyNumber(ohlcv.close[index])
    /\ ~IsFalsyNumber(ohlcv.volume[index])

\* the object the map callback returns for a complete index
MakeBar(timestamp, ohlcv, index) ==
    [time   |-> IsoDate(timestamp),
     open   |-> ToFixed2(ohlcv.open[index][1]),
     high   |-> ToFixed2(ohlcv.high[index][1]),
     low    |-> ToFixed2(ohlcv.low[index][1]),
     close  |-> ToFixed2(ohlcv.close[index][1]),
     volume |-> ParseInt(ohlcv.volume[index][1])]

\* timestamps.map(...).filter(item => item !== null)
RECURSIVE ProcessFrom(_, _, _)
ProcessFrom(timestamps, ohlcv, index) ==
    IF index > Len(timestamps) THEN <<>>
    ELSE IF IsComplete(ohlcv, index)
         THEN <<MakeBar(timestamps[index], ohlcv, index)>>
                  \o ProcessFrom(timestamps, ohlcv, index + 1)
         ELSE ProcessFrom(timestamps, ohlcv, index + 1)

\* (variant: the adjusted closes, where upstream sent them, are reshaped in
\* place of the closes)
ProcessedDataAdjusted(quotes) ==
    ProcessFrom(quotes.timestamp[1],
                [quotes.quote EXCEPT !.close = IF quotes.adjclose = None
                                               THEN @
                                               ELSE quotes.adjclose[1]],
                1)

\* adjClose is assigned from quotes.indicators.adjclose and never read
ProcessedData(quotes) == ProcessFrom(quotes.timestamp[1], quotes.quote, 1)

(***************************************************************************)
(* The upstream payload (response.data) and the reshaping of it.           *)
(*   data   = [chart : optional [result : optional Seq(optional quotes)]]  *)
(*   quotes = [timestamp : optional Seq(Int), indicators : BOOLEAN,        *)
(*             quote : the five OHLCV arrays, adjclose : optional array]   *)
(***************************************************************************)
\* !result.chart || !result.chart.result || !result.chart.result[0]
HasNoResult(data) ==
    \/ data.chart = None
    \/ data.chart[1].result = None
    \/ Len(data.chart[1].result[1]) = 0
    \/ data.chart[1].result[1][1] = None

Quotes(data) == data.chart[1].result[1][1][1]

\* quotes.indicators.quote[0] throws when indicators is missing, and
\* timestamps.map throws when timestamp is missing
ReshapeThrows(quotes) == ~quotes.indicators \/ quotes.timestamp = None

ReshapeMessage(quotes) ==
    IF ~quotes.indicators
    THEN "Cannot read properties of undefined (reading 'quote')"
    ELSE "Cannot read properties of undefined (reading 'map')"

(***************************************************************************)
(* Responses.  res[r] is the sequence of responses sent for the request    *)
(* that slot r is serving.                                                 *)
(***************************************************************************)
ErrorBody(status, details) ==
    [status |-> status, details |-> details, error |-> "", body |-> None]

OkBody(array) ==
    [status |-> 200, details |-> "", error |-> "", body |-> Some(array)]

\* (variant: the guard is missing, reading the first result throws and the
\* catch block answers)
NoDataResponseThrown ==
    [status |-> 500, details |-> "Error fetching stock data",
     error |-> "Cannot read properties of undefined (reading 'result')", body |-> None]

\* the answer to a payload without a first chart result
NoDataResponse == ErrorBody(404, "No data available for this symbol")

\* (variant: every failure is answered with the generic 500)
CatchResponseGeneric(error) ==
    [status |-> 500, details |-> "Error fetching stock data",
     error |-> error.message, body |-> None]

\* the catch block: 404 and 429 are told apart, everything else is a 500
\* carrying error.message
CatchResponse(error) ==
    IF error.response # None /\ error.response[1] = 404
    THEN ErrorBody(404, "Stock symbol not found")
    ELSE IF error.response # None /\ error.response[1] = 429
    THEN ErrorBody(429, "Too many requests. Please try again later.")
    ELSE [status |-> 500, details |-> "Error fetching stock data",
          error |-> error.message, body |-> None]

(***************************************************************************)
(* Initial state: the module has been loaded, no request is being served.  *)
(***************************************************************************)
NoReply == [kind |-> "none", data |-> [chart |-> None],
            error |-> [response |-> None, message |-> ""]]

DataReply(data) == [kind |-> "data", data |-> data,
                    error |-> [response |-> None, message |-> ""]]

ErrorReply(error) == [kind |-> "error", data |-> [chart |-> None], error |-> error]

NoRequest == [method |-> "", query |-> [symbol |-> None, startDate |-> None, endDate |-> None]]

(***************************************************************************)
(* The chart pages.  Three versions of the StockChart component page      *)
(* through a list of symbols: part_002 fetches in its click handlers,      *)
(* part_003 fetches in an effect that depends on the period, the interval  *)
(* and the index, and index.js reads the bars of the selected index from   *)
(* imported lists.  A handler reads the state of the render it was created *)
(* in ("rendered"), while an updater function (setX(prev => ...)) acts on  *)
(* the state as it is; Render is the step that creates the next closures   *)
(* and runs the effects.  pageError is the component's error state.  A     *)
(* fetch in flight is a record of its arguments; its field clean says that *)
(* no fetch has failed since it started, and cleanSuccess says that the    *)
(* fetch that settled last was such a fetch and succeeded.  chartData      *)
(* holds what the data are the bars of.                                    *)
(***************************************************************************)
Pages == {"part_002", "part_003", "index"}

FetchPages == {"part_002", "part_003"}

\* the number of symbols of each imported list of index.js
IndexData == <<MaxSymbols, 2>>

IndexSymbols(index) == [i \in 1..IndexData[index + 1] |-> <<index, i>>]

CsvSymbols(n) == [i \in 1..n |-> <<0, i>>]

\* symbols[i] of JavaScript: undefined out of the array
SymbolAt(symbols, i) ==
    IF i \in 0..(Len(symbols) - 1) THEN Some(symbols[i + 1]) ELSE None

InitialPeriod(p) == IF p = "index" THEN "YTD" ELSE "3M"

BarsOf(symbol, period, intervalArg) ==
    <<[symbol |-> symbol, period |-> period, interval |-> intervalArg]>>

\* loadStockData of index.js: all the bars of the symbol at the index, none
\* when there is no such symbol
LoadStockData(index, stockIndex, intervalArg) ==
    LET stockSymbol == SymbolAt(IndexSymbols(index), stockIndex)
    IN  IF stockSymbol = None THEN <<>>
        ELSE BarsOf(stockSymbol[1], "all", intervalArg)

\* the period that index.js selects with an interval
AutoTimeframe(value) == IF value = "daily" THEN "YTD" ELSE "2Y"

Closure ==
    [stockSymbols |-> stockSymbols, selectedIndex |-> selectedIndex,
     currentIndex |-> currentIndex, selectedPeriod |-> selectedPeriod,
     selectedInterval |-> selectedInterval]

\* the component after its first render and the effects of that render
Mounted(p) ==
    /\ page = p
    /\ stockSymbols = <<>>
    /\ selectedIndex = 0
    /\ currentIndex = 0
    /\ selectedPeriod = InitialPeriod(p)
    /\ selectedInterval = "daily"
    /\ chartData = IF p = "index" THEN LoadStockData(0, 0, "daily") ELSE <<>>
    /\ loading = (p # "index")
    /\ pageError = None
    /\ rendered = [stockSymbols |-> <<>>, selectedIndex |-> 0, currentIndex |-> 0,
                   selectedPeriod |-> InitialPeriod(p), selectedInterval |-> "daily"]
    /\ inFlight = <<>>
    /\ cleanSuccess = FALSE

Loaded ==
    /\ cache = <<>>
    /\ pc = [r \in Slots |-> "idle"]
    /\ req = [r \in Slots |-> NoRequest]
    /\ res = [r \in Slots |-> <<>>]
    /\ calls = [r \in Slots |-> 0]
    /\ reply = [r \in Slots |-> NoReply]
    /\ upstreamCalls = 0
    /\ inserted = <<>>
    /\ evicted = <<>>

\* the chart page has not called aggregateData
NotCalled ==
    /\ returned = FALSE
    /\ periodMap = <<>>
    /\ aggregatedData = <<>>

Init ==
    /\ Loaded
    /\ formattedData = <<>>
    /\ interval = "daily"
    /\ timeZone = 0
    /\ sorts = FALSE
    /\ NotCalled
    /\ Mounted("part_002")

(***************************************************************************)
(* handler, from its entry to its first await (or to its early return).    *)
(***************************************************************************)
\* (variant: the response is sent without a return, and the code that
\* follows ends in the catch block, which sends its 500)
RespondAndFallThrough(r, response) ==
    /\ res' = [res EXCEPT ![r] = Append(Append(@, response),
                                        [status |-> 500, details |-> "Error fetching stock data",
                                         error |-> "", body |-> None])]
    /\ pc' = [pc EXCEPT ![r] = "done"]

\* return res.status(...).json(...)
Respond(r, response) ==
    /\ res' = [res EXCEPT ![r] = Append(@, response)]
    /\ pc' = [pc EXCEPT ![r] = "done"]

HandlerStart(r, request) ==
    /\ pc[r] # "awaiting"
    /\ req' = [req EXCEPT ![r] = request]
    /\ reply' = [reply EXCEPT ![r] = NoReply]
    /\ LET q == request.query
           cacheKey == CacheKey(q)
       IN  IF ~MethodAllowed(request.method)
           THEN /\ res' = [res EXCEPT ![r] = <<ErrorBody(405, "Method not allowed")>>]
                /\ pc' = [pc EXCEPT ![r] = "done"]
                /\ calls' = [calls EXCEPT ![r] = 0]
                /\ UNCHANGED <<cache, upstreamCalls, inserted, evicted>>
           ELSE IF IsFalsyString(q.symbol)
           THEN /\ res' = [res EXCEPT ![r] = <<ErrorBody(400, "Symbol is required")>>]
                /\ pc' = [pc EXCEPT ![r] = "done"]
                /\ calls' = [calls EXCEPT ![r] = 0]
                /\ UNCHANGED <<cache, upstreamCalls, inserted, evicted>>
           ELSE IF CacheHas(cache, cacheKey)
           THEN /\ res' = [res EXCEPT ![r] = <<OkBody(CacheGet(cache, cacheKey))>>]
                /\ pc' = [pc EXCEPT ![r] = "done"]
                /\ calls' = [calls EXCEPT ![r] = 0]
                /\ UNCHANGED <<cache, upstreamCalls, inserted, evicted>>
           ELSE /\ res' = [res EXCEPT ![r] = <<>>]
                /\ pc' = [pc EXCEPT ![r] = "awaiting"]
                /\ calls' = [calls EXCEPT ![r] = 1]
                /\ upstreamCalls' = upstreamCalls + 1
                /\ UNCHANGED <<cache, inserted, evicted>>
    /\ UNCHANGED <<aggVars, pagerVars>>

(***************************************************************************)
(* handler, after the await: the upstream call resolved with a payload.    *)
(***************************************************************************)
UpstreamResolves(r, data) ==
    /\ pc[r] = "awaiting"
    /\ reply' = [reply EXCEPT ![r] = DataReply(data)]
    /\ LET cacheKey == CacheKey(req[r].query)
       IN  IF HasNoResult(data)
           THEN /\ Respond(r, NoDataResponse)
                /\ UNCHANGED <<cache, inserted, evicted>>
           ELSE IF ReshapeThrows(Quotes(data))
           THEN /\ Respond(r, CatchResponse([response |-> None,
                                             message |-> ReshapeMessage(Quotes(data))]))
                /\ UNCHANGED <<cache, inserted, evicted>>
           ELSE LET processedData == ProcessedData(Quotes(data))
                    stored == CacheSet(cache, cacheKey, processedData)
                IN  /\ cache' = EvictOldest(stored)
                    /\ inserted' = IF CacheHas(cache, cacheKey)
                                   THEN inserted
                                   ELSE Append(inserted, cacheKey)
                    /\ evicted' = IF NeedsEviction(stored)
                                  THEN Append(evicted, OldestKey(stored))
                                  ELSE evicted
                    /\ Respond(r, OkBody(processedData))
    /\ UNCHANGED <<req, calls, upstreamCalls>>
    /\ UNCHANGED <<aggVars, pagerVars>>

(***************************************************************************)
(* (variant of UpstreamRejects: the rejection is not caught, the handler   *)
(* ends without a response)                                                *)
(***************************************************************************)
UpstreamRejectsUnhandled(r, error) ==
    /\ pc[r] = "awaiting"
    /\ reply' = [reply EXCEPT ![r] = ErrorReply(error)]
    /\ pc' = [pc EXCEPT ![r] = "idle"]
    /\ UNCHANGED <<cache, req, res, calls, upstreamCalls, inserted, evicted>>
    /\ UNCHANGED <<aggVars, pagerVars>>

(***************************************************************************)
(* (variant of UpstreamRejects: the failure is remembered, an empty array  *)
(* is stored under the key before the failure is answered)                 *)
(***************************************************************************)
UpstreamRejectsCached(r, error) ==
    /\ pc[r] = "awaiting"
    /\ reply' = [reply EXCEPT ![r] = ErrorReply(error)]
    /\ cache' = CacheSet(cache, CacheKey(req[r].query), <<>>)
    /\ Respond(r, CatchResponse(error))
    /\ UNCHANGED <<req, calls, upstreamCalls, inserted, evicted>>
    /\ UNCHANGED <<aggVars, pagerVars>>

(***************************************************************************)
(* (variant of UpstreamRejects: a failed call is issued once more before   *)
(* the failure is answered)                                                *)
(***************************************************************************)
UpstreamRejectsRetry(r, error) ==
    /\ pc[r] = "awaiting"
    /\ IF calls[r] < 2
       THEN /\ calls' = [calls EXCEPT ![r] = @ + 1]
            /\ upstreamCalls' = upstreamCalls + 1
            /\ UNCHANGED <<pc, res, reply>>
       ELSE /\ reply' = [reply EXCEPT ![r] = ErrorReply(error)]
            /\ Respond(r, CatchResponse(error))
            /\ UNCHANGED <<calls, upstreamCalls>>
    /\ UNCHANGED <<cache, req, inserted, evicted>>
    /\ UNCHANGED <<aggVars, pagerVars>>

(***************************************************************************)
(* handler, after the await: the upstream call rejected (an HTTP error     *)
(* status, or no response at all).                                         *)
(***************************************************************************)
UpstreamRejects(r, error) ==
    /\ pc[r] = "awaiting"
    /\ reply' = [reply EXCEPT ![r] = ErrorReply(error)]
    /\ Respond(r, CatchResponse(error))
    /\ UNCHANGED <<cache, req, calls, upstreamCalls, inserted, evicted>>
    /\ UNCHANGED <<aggVars, pagerVars>>

(***************************************************************************)
(* The environment: the requests clients send and what upstream answers.   *)
(***************************************************************************)
Query(symbol, startDate, endDate) ==
    [symbol |-> symbol, startDate |-> startDate, endDate |-> endDate]

\* Two spellings of the same day, a symbol with a dash in it, an absent
\* startDate and the literal text "undefined", an absent and an empty symbol.
Queries ==
    { Query(Some(<<"A">>), Some(<<"D1">>), Some(<<"D2">>)),
      Query(Some(<<"A">>), Some(<<"D1", "T00:00:00.000Z">>), Some(<<"D2">>)),
      Query(Some(<<"A", "-", "B">>), Some(<<"D1">>), Some(<<"D2">>)),
      Query(Some(<<"A">>), Some(<<"B", "-", "D1">>), Some(<<"D2">>)),
      Query(Some(<<"A">>), None, Some(<<"D2">>)),
      Query(Some(<<"A">>), Some(<<"undefined">>), Some(<<"D2">>)),
      Query(None, Some(<<"D1">>), Some(<<"D2">>)),
      Query(Some(<<>>), None, None) }

Methods == {"GET", "POST"}

Requests == [method : Methods, query : Queries]

Ohlcv(open, high, low, close, volume) ==
    [open |-> open, high |-> high, low |-> low, close |-> close, volume |-> volume]

ChartData(result) == [chart |-> Some([result |-> result])]

QuotesData(timestamp, indicators, quote, adjclose) ==
    ChartData(Some(<<Some([timestamp |-> timestamp, indicators |-> indicators,
                           quote |-> quote, adjclose |-> adjclose])>>))

NoOhlcv == Ohlcv(<<>>, <<>>, <<>>, <<>>, <<>>)

\* payloads without a usable first result
EmptyPayloads ==
    { [chart |-> None],
      ChartData(None),
      ChartData(Some(<<>>)),
      ChartData(Some(<<None>>)) }

\* payloads whose first result lacks the parts the reshaping reads
BrokenPayloads ==
    { QuotesData(None, FALSE, NoOhlcv, None),
      QuotesData(None, TRUE, NoOhlcv, None) }

\* two trading days; the second one of GoodPayloadA has volume 0
GoodPayloadA ==
    QuotesData(Some(<<SecondsPerDay + 100, 2 * SecondsPerDay + 100>>), TRUE,
               Ohlcv(<<Some(10004), Some(11000)>>, <<Some(12005), Some(13000)>>,
                     <<Some(9000), Some(10000)>>, <<Some(11000), Some(12000)>>,
                     <<Some(100000), Some(0)>>),
               None)

GoodPayloadB ==
    QuotesData(Some(<<SecondsPerDay + 100, 2 * SecondsPerDay + 100>>), TRUE,
               Ohlcv(<<Some(10004), Some(11000)>>, <<Some(12005), Some(13000)>>,
                     <<Some(9000), Some(10000)>>, <<Some(11000), Some(12000)>>,
                     <<Some(100000), Some(200999)>>),
               Some(<<Some(10500), Some(11500)>>))

Payloads == EmptyPayloads \cup BrokenPayloads \cup {GoodPayloadA, GoodPayloadB}

HttpError(status, message) == [response |-> Some(status), message |-> message]

Errors ==
    { HttpError(404, "Request failed with status code 404"),
      HttpError(429, "Request failed with status code 429"),
      HttpError(500, "Request failed with status code 500"),
      HttpError(403, "Request failed with status code 403"),
      [response |-> None, message |-> "Network Error"] }

\* the n-th symbol of a client that walks through a list of symbols
FillSymbol(n) == <<"S", ToString(n)>>

FillQuery(n) == Query(Some(FillSymbol(n)), Some(<<"D1">>), Some(<<"D2">>))

Get(query) == [method |-> "GET", query |-> query]

(***************************************************************************)
(* Spec: the proxy serving one request after another, with every kind of   *)
(* request and of upstream answer.                                         *)
(***************************************************************************)
Next ==
    \/ \E request \in Requests : upstreamCalls < MaxCalls /\ HandlerStart(1, request)
    \/ \E data \in Payloads : UpstreamResolves(1, data)
    \/ \E error \in Errors : UpstreamRejects(1, error)

Spec == Init /\ [][Next]_vars

(***************************************************************************)
(* SpecFill: a client walks through a list of symbols, asking for the      *)
(* next new symbol once the cache has gained an entry, long enough to      *)
(* overflow the cache; meanwhile the first symbol is asked for again and   *)
(* again, also concurrently.  Upstream answers with data or with a 404.    *)
(***************************************************************************)
\* the walk ends FillExtra entries after the cache is full, and at most
\* FillExtra upstream calls are spent on anything but a new entry
FillGoesOn ==
    /\ Len(inserted) < MaxCacheSize + FillExtra
    /\ upstreamCalls < Len(inserted) + FillExtra

NextFill ==
    \/ FillGoesOn /\ HandlerStart(1, Get(FillQuery(Len(inserted) + 1)))
    \/ \E r \in Slots \ {1} : FillGoesOn /\ HandlerStart(r, Get(FillQuery(1)))
    \/ \E r \in Slots : UpstreamResolves(r, GoodPayloadA)
    \/ \E r \in Slots : UpstreamRejects(r, HttpError(404, "Request failed with status code 404"))

SpecFill == Init /\ [][NextFill]_vars

(***************************************************************************)
(* SpecReshape: one symbol is asked for, and upstream answers with MaxBars *)
(* trading days of which each is complete or has one field null or 0.      *)
(***************************************************************************)
Fields == {"open", "high", "low", "close", "volume"}

DayShapes == {[kind |-> "complete", field |-> "open"]} \cup [kind : {"null", "zero"}, field : Fields]

DayValue(field, i) ==
    CASE field = "open"   -> 10004 + 1000 * i
      [] field = "high"   -> 12005 + 1000 * i
      [] field = "low"    -> 9000 + 1000 * i
      [] field = "close"  -> 11000 + 1000 * i
      [] field = "volume" -> 100999 + 1000 * i

FieldOf(shapes, field) ==
    [i \in 1..MaxBars |->
        IF shapes[i].kind = "complete" \/ shapes[i].field # field
        THEN Some(DayValue(field, i))
        ELSE IF shapes[i].kind = "null" THEN None ELSE Some(0)]

ShapedPayload(shapes) ==
    QuotesData(Some([i \in 1..MaxBars |-> i * SecondsPerDay + 100]), TRUE,
               Ohlcv(FieldOf(shapes, "open"), FieldOf(shapes, "high"),
                     FieldOf(shapes, "low"), FieldOf(shapes, "close"),
                     FieldOf(shapes, "volume")),
               None)

ReshapePayloads == {ShapedPayload(shapes) : shapes \in [1..MaxBars -> DayShapes]}

\* the adjusted closes upstream may send along: below the closes, or null
AdjCloses ==
    { Some([i \in 1..MaxBars |-> Some(DayValue("close", i) - 500)]),
      Some([i \in 1..MaxBars |-> None]) }

WithAdjclose(data, adjclose) ==
    LET quotes == Quotes(data)
    IN  QuotesData(quotes.timestamp, quotes.indicators, quotes.quote, adjclose)

AdjustedPayloads == {WithAdjclose(data, adjclose) : data \in ReshapePayloads, adjclose \in AdjCloses}

NextReshape ==
    \/ \E n \in {1, 2} : HandlerStart(1, Get(FillQuery(n)))
    \/ \E data \in ReshapePayloads \cup AdjustedPayloads : UpstreamResolves(1, data)

SpecReshape == Init /\ [][NextReshape]_vars

(***************************************************************************)
(* SpecRace: MaxInFlight requests at a time for one of two symbols, so     *)
(* that a second request for a key can check the cache while the first is  *)
(* still waiting for upstream.  Upstream answers each call with one of two *)
(* payloads or fails.                                                      *)
(***************************************************************************)
NextRace ==
    \/ \E r \in Slots, n \in {1, 2} :
          upstreamCalls < MaxCalls /\ HandlerStart(r, Get(FillQuery(n)))
    \/ \E r \in Slots, data \in {GoodPayloadA, GoodPayloadB} : UpstreamResolves(r, data)
    \/ \E r \in Slots : UpstreamRejects(r, [response |-> None, message |-> "Network Error"])

SpecRace == Init /\ [][NextRace]_vars

(***************************************************************************)
(* SpecLive: the requests of SpecRace, where the upstream call of slot 1   *)
(* always completes or fails in the end, while the upstream call of any    *)
(* other slot may stay pending for ever.                                   *)
(***************************************************************************)
UpstreamSettles(r) ==
    \/ \E data \in {GoodPayloadA, GoodPayloadB} : UpstreamResolves(r, data)
    \/ UpstreamRejects(r, [response |-> None, message |-> "Network Error"])

SpecLive == Init /\ [][NextRace]_vars /\ WF_vars(UpstreamSettles(1))

(***************************************************************************)
(* The chart page's aggregateData.  A Date is its instant in epoch         *)
(* seconds; its local fields are those of the instant moved by the         *)
(* browser's offset from UTC.                                              *)
(***************************************************************************)
\* (variant: the week is counted from Monday, 0 is Monday)
GetDayFromMonday(date, zone) == ((date + zone) \div SecondsPerDay + 3) % 7

\* Date.prototype.getDay, in local time: 0 is Sunday (1970-01-01 was a Thursday)
GetDay(date, zone) == ((date + zone) \div SecondsPerDay + 4) % 7

\* new Date(date.setDate(date.getDate() - days)): the same local time of
\* day, that many days earlier
SetDateBack(date, days) == date - days * SecondsPerDay

\* toISOString().slice(0, 10): the date in UTC
ToISODate(date) == date \div SecondsPerDay

\* the year and the month (1..12) of the day with that number in the
\* proleptic Gregorian calendar
CivilYearMonth(day) ==
    LET z == day + 719468
        era == z \div 146097
        doe == z - era * 146097
        yoe == (doe - doe \div 1460 + doe \div 36524 - doe \div 146096) \div 365
        doy == doe - (365 * yoe + yoe \div 4 - yoe \div 100)
        mp == (5 * doy + 2) \div 153
        month == IF mp < 10 THEN mp + 3 ELSE mp - 9
        year == yoe + era * 400 + (IF month <= 2 THEN 1 ELSE 0)
    IN  <<year, month>>

\* `${date.getFullYear()}-${(date.getMonth() + 1).toString().padStart(2, '0')}`
GetYearMonth(date, zone) == CivilYearMonth((date + zone) \div SecondsPerDay)

\* periodKey of an item; it stays undefined (the empty tuple) for an
\* interval that is neither weekly nor monthly
PeriodKey(item, intervalArg, zone) ==
    LET date == item.time
    IN  IF intervalArg = "weekly"
        THEN <<ToISODate(SetDateBack(date, GetDay(date, zone)))>>
        ELSE IF intervalArg = "monthly"
        THEN GetYearMonth(date, zone)
        ELSE <<>>

\* (variant: only the bucket added last is looked at)
HasPeriodLast(map, key) == Len(map) > 0 /\ map[Len(map)].key = key

\* periodMap[periodKey] is there
HasPeriod(map, key) == \E i \in 1..Len(map) : map[i].key = key

Max(a, b) == IF a >= b THEN a ELSE b

Min(a, b) == IF a <= b THEN a ELSE b

\* (variant: the item itself becomes the bucket; alias is the index of the
\* element of the input the bucket is)
NewBucketAliased(item, index) == [value |-> item, alias |-> index]

\* a bucket starts as a new object with the item's six fields
NewBucket(item, index) ==
    [value |-> [time |-> item.time, open |-> item.open, high |-> item.high,
                low |-> item.low, close |-> item.close, volume |-> item.volume],
     alias |-> 0]

\* (variant: the bucket's volume is that of the latest item, as its close is)
MergeLatestVolume(bucket, item) ==
    [bucket EXCEPT !.high = Max(@, item.high), !.low = Min(@, item.low),
                   !.close = item.close, !.volume = item.volume]

\* (variant: high and low are those of the latest item)
MergeLatest(bucket, item) ==
    [bucket EXCEPT !.high = item.high, !.low = item.low,
                   !.close = item.close, !.volume = @ + item.volume]

\* (variant: the high of the bucket stays that of its first item)
MergeFirstHigh(bucket, item) ==
    [bucket EXCEPT !.low = Min(@, item.low),
                   !.close = item.close, !.volume = @ + item.volume]

\* the else branch: the item is folded into its bucket
Merge(bucket, item) ==
    [bucket EXCEPT !.high = Max(@, item.high), !.low = Min(@, item.low),
                   !.close = item.close, !.volume = @ + item.volume]

\* one call of the forEach callback; state holds the elements of the input
\* and periodMap, whose entries are in the order their keys were added
ForEachStep(state, index, intervalArg, zone) ==
    LET item == state.items[index]
        periodKey == PeriodKey(item, intervalArg, zone)
        map == state.periodMap
    IN  IF ~HasPeriod(map, periodKey)
        THEN LET bucket == NewBucket(item, index)
             IN  [items |-> state.items,
                  periodMap |-> Append(map, [key |-> periodKey, value |-> bucket.value,
                                             alias |-> bucket.alias])]
        ELSE LET i == CHOOSE i \in 1..Len(map) : map[i].key = periodKey
                 merged == Merge(map[i].value, item)
             IN  [items |-> IF map[i].alias = 0
                            THEN state.items
                            ELSE [state.items EXCEPT ![map[i].alias] = merged],
                  periodMap |-> [map EXCEPT ![i].value = merged]]

RECURSIVE ForEach(_, _, _, _)
ForEach(state, index, intervalArg, zone) ==
    IF index > Len(state.items)
    THEN state
    ELSE ForEach(ForEachStep(state, index, intervalArg, zone), index + 1, intervalArg, zone)

\* Object.values(periodMap), and the for-in loop that pushes periodMap[key]
Values(map) == [i \in 1..Len(map) |-> map[i].value]

\* x put behind the elements of a sorted array that are not later than x
InsertByTime(sorted, x) ==
    LET n == Cardinality({i \in 1..Len(sorted) : sorted[i].time <= x.time})
    IN  SubSeq(sorted, 1, n) \o <<x>> \o SubSeq(sorted, n + 1, Len(sorted))

\* (variant: the array is returned as it was collected)
NotSorted(array) == array

\* .sort((a, b) => a.time - b.time), a stable sort
RECURSIVE SortByTime(_)
SortByTime(array) ==
    IF Len(array) <= 1
    THEN array
    ELSE InsertByTime(SortByTime(SubSeq(array, 1, Len(array) - 1)), array[Len(array)])

\* (variant: without the early return for daily)
AggregateDataAlwaysFolds(given, intervalArg, zone, sorting) ==
    LET folded == ForEach([items |-> given, periodMap |-> <<>>], 1, intervalArg, zone)
    IN  [items |-> folded.items, periodMap |-> folded.periodMap,
         result |-> IF sorting
                    THEN SortByTime(Values(folded.periodMap))
                    ELSE Values(folded.periodMap)]

\* aggregateData(data, interval): what it returns, what periodMap is when it
\* returns, and what the elements of data are by then.  sorting tells the
\* variant that returns Object.values(periodMap).sort(...) from the variants
\* that return the buckets as the for-in loop collects them.
AggregateData(given, intervalArg, zone, sorting) ==
    IF intervalArg = "daily"
    THEN [items |-> given, periodMap |-> <<>>, result |-> given]
    ELSE LET folded == ForEach([items |-> given, periodMap |-> <<>>], 1, intervalArg, zone)
         IN  [items |-> folded.items, periodMap |-> folded.periodMap,
              result |-> IF sorting
                         THEN SortByTime(Values(folded.periodMap))
                         ELSE Values(folded.periodMap)]

\* the chart page calls aggregateData(formattedData, selectedInterval)
Aggregate ==
    /\ ~returned
    /\ LET out == AggregateData(formattedData, interval, timeZone, sorts)
       IN  /\ formattedData' = out.items
           /\ periodMap' = out.periodMap
           /\ aggregatedData' = out.result
    /\ returned' = TRUE
    /\ UNCHANGED <<interval, timeZone, sorts>>
    /\ UNCHANGED <<proxyVars, pagerVars>>

(***************************************************************************)
(* SpecAggregate: aggregateData is called once, with up to MaxSeries bars  *)
(* in any order, an interval, and a browser in New York (winter), in UTC   *)
(* or in India.  The bars are at 1 and 2 seconds of Thursday 1970-01-01    *)
(* and at midnight UTC of Sunday 01-04, Monday 01-05, Saturday 01-31,      *)
(* Sunday 02-01 and Monday 02-02; their prices rise or fall along the      *)
(* array.                                                                  *)
(***************************************************************************)
Intervals == {"daily", "weekly", "monthly"}

TimeZones == {-18000, 0, 19800}

BarDays == {3, 4, 30, 31, 32}

BarTimes == {1, 2} \cup {day * SecondsPerDay : day \in BarDays}

Bar(time, n) ==
    [time |-> time, open |-> 9 + n, high |-> 11 + n, low |-> 8 + n,
     close |-> 10 + n, volume |-> 100 * n]

Series(times, rising) ==
    [i \in 1..Len(times) |-> Bar(times[i], IF rising THEN i ELSE Len(times) + 1 - i)]

Inputs ==
    UNION {{Series(times, rising) : times \in [1..n -> BarTimes], rising \in BOOLEAN} :
              n \in 0..MaxSeries}

InitAggregate ==
    /\ Loaded
    /\ NotCalled
    /\ formattedData \in Inputs
    /\ interval \in Intervals
    /\ timeZone \in TimeZones
    /\ sorts \in BOOLEAN
    /\ Mounted("part_002")

NextAggregate == Aggregate

SpecAggregate == InitAggregate /\ [][NextAggregate]_vars

(***************************************************************************)
(* SpecPager: one chart page, its user and the responses of /api/stockData *)
(* to the fetches it has started.                                          *)
(***************************************************************************)
PagerPeriods == {"3M", "1Y"}

PagerIntervals == {"daily", "weekly"}

Fetch(symbol, period, intervalArg) ==
    [symbol |-> symbol, period |-> period, interval |-> intervalArg, clean |-> TRUE]

RemoveAt(fetches, k) == SubSeq(fetches, 1, k - 1) \o SubSeq(fetches, k + 1, Len(fetches))

\* a fetch has failed: the fetches still in flight have seen a failure
Unclean(fetches) == [k \in 1..Len(fetches) |-> [fetches[k] EXCEPT !.clean = FALSE]]

\* fetchStockData, from its call to its await
FetchStockData(symbol, period, intervalArg) ==
    /\ Len(inFlight) < MaxFetches
    /\ inFlight' = Append(inFlight, Fetch(symbol, period, intervalArg))
    /\ loading' = TRUE
    /\ pageError' = IF page = "part_002" THEN None ELSE pageError

\* loadCSV has read the symbols and fetches the first of them; in part_003
\* its finally block runs after fetchStockData has returned its promise
LoadCSV(n) ==
    /\ page \in FetchPages
    /\ stockSymbols = <<>>
    /\ stockSymbols' = CsvSymbols(n)
    /\ Len(inFlight) < MaxFetches
    /\ inFlight' = Append(inFlight, Fetch(SymbolAt(CsvSymbols(n), 0),
                                          rendered.selectedPeriod,
                                          rendered.selectedInterval))
    /\ loading' = (page = "part_002")
    /\ pageError' = IF page = "part_002" THEN None ELSE pageError
    /\ UNCHANGED <<page, selectedIndex, currentIndex, selectedPeriod,
                   selectedInterval, chartData, rendered>>
    /\ UNCHANGED <<proxyVars, aggVars, cleanSuccess>>

PreviousDisabled == rendered.currentIndex = 0

NextDisabled ==
    IF page = "index"
    THEN rendered.currentIndex = Len(IndexSymbols(rendered.selectedIndex)) - 1
    ELSE rendered.currentIndex = Len(rendered.stockSymbols) - 1

\* a click on Previous; at most MaxClicks clicks are handled by the
\* handlers of one render
HandlePrevious ==
    /\ ~PreviousDisabled
    /\ IF page = "index"
       THEN /\ currentIndex' = IF currentIndex > 0 THEN currentIndex - 1 ELSE currentIndex
            /\ UNCHANGED <<inFlight, loading, pageError>>
       ELSE /\ rendered.currentIndex > 0
            /\ currentIndex > rendered.currentIndex - MaxClicks
            /\ currentIndex' = currentIndex - 1
            /\ IF page = "part_002"
               THEN FetchStockData(SymbolAt(rendered.stockSymbols, rendered.currentIndex - 1),
                                   rendered.selectedPeriod, "daily")
               ELSE UNCHANGED <<inFlight, loading, pageError>>
    /\ UNCHANGED <<page, stockSymbols, selectedIndex, selectedPeriod,
                   selectedInterval, chartData, rendered>>
    /\ UNCHANGED <<proxyVars, aggVars, cleanSuccess>>

\* a click on Next
HandleNext ==
    /\ ~NextDisabled
    /\ IF page = "index"
       THEN LET totalStocks == Len(IndexSymbols(rendered.selectedIndex))
            IN  /\ currentIndex' = IF currentIndex < totalStocks - 1
                                   THEN currentIndex + 1
                                   ELSE currentIndex
                /\ UNCHANGED <<inFlight, loading, pageError>>
       ELSE /\ rendered.currentIndex < Len(rendered.stockSymbols) - 1
            /\ currentIndex < rendered.currentIndex + MaxClicks
            /\ currentIndex' = currentIndex + 1
            /\ IF page = "part_002"
               THEN FetchStockData(SymbolAt(rendered.stockSymbols, rendered.currentIndex + 1),
                                   rendered.selectedPeriod, "daily")
               ELSE UNCHANGED <<inFlight, loading, pageError>>
    /\ UNCHANGED <<page, stockSymbols, selectedIndex, selectedPeriod,
                   selectedInterval, chartData, rendered>>
    /\ UNCHANGED <<proxyVars, aggVars, cleanSuccess>>

\* another list is chosen in the index select of index.js
HandleIndexChange(newIndex) ==
    /\ page = "index"
    /\ newIndex # rendered.selectedIndex
    /\ selectedIndex' = newIndex
    /\ currentIndex' = 0
    /\ UNCHANGED <<page, stockSymbols, selectedPeriod, selectedInterval, chartData,
                   loading, pageError, rendered, inFlight>>
    /\ UNCHANGED <<proxyVars, aggVars, cleanSuccess>>

\* another period is chosen in the period select
PeriodChange(value) ==
    /\ page \in FetchPages
    /\ value # rendered.selectedPeriod
    /\ selectedPeriod' = value
    /\ IF page = "part_002"
       THEN FetchStockData(SymbolAt(rendered.stockSymbols, rendered.currentIndex),
                           value, "daily")
       ELSE UNCHANGED <<inFlight, loading, pageError>>
    /\ UNCHANGED <<page, stockSymbols, selectedIndex, currentIndex,
                   selectedInterval, chartData, rendered>>
    /\ UNCHANGED <<proxyVars, aggVars, cleanSuccess>>

\* another interval is chosen in the interval select
IntervalChange(value) ==
    /\ page # "part_002"
    /\ value # rendered.selectedInterval
    /\ selectedInterval' = value
    /\ selectedPeriod' = IF page = "index" THEN AutoTimeframe(value) ELSE selectedPeriod
    /\ UNCHANGED <<page, stockSymbols, selectedIndex, currentIndex,
                   chartData, loading, pageError, rendered, inFlight>>
    /\ UNCHANGED <<proxyVars, aggVars, cleanSuccess>>

\* the component renders with the state as it is, and the effects whose
\* dependencies have changed run
Render ==
    /\ Closure # rendered
    /\ rendered' = Closure
    /\ IF /\ page = "part_003"
          /\ <<selectedPeriod, selectedInterval, currentIndex>>
               # <<rendered.selectedPeriod, rendered.selectedInterval, rendered.currentIndex>>
          /\ Len(stockSymbols) > 0
       THEN /\ FetchStockData(SymbolAt(stockSymbols, currentIndex),
                              selectedPeriod, selectedInterval)
            /\ UNCHANGED chartData
       ELSE IF /\ page = "index"
               /\ <<selectedIndex, currentIndex, selectedInterval>>
                    # <<rendered.selectedIndex, rendered.currentIndex, rendered.selectedInterval>>
            THEN /\ chartData' = LoadStockData(selectedIndex, currentIndex, selectedInterval)
                 /\ loading' = FALSE
                 /\ UNCHANGED <<inFlight, pageError>>
            ELSE UNCHANGED <<chartData, loading, pageError, inFlight>>
    /\ UNCHANGED <<page, stockSymbols, selectedIndex, currentIndex, selectedPeriod,
                   selectedInterval>>
    /\ UNCHANGED <<proxyVars, aggVars, cleanSuccess>>

\* the response of fetch k arrives; part_002 takes an empty array for an
\* error
FetchSucceeds(k, hasData) ==
    /\ k \in 1..Len(inFlight)
    /\ inFlight[k].symbol # None
    /\ hasData \/ page = "part_002"
    /\ IF hasData
       THEN /\ chartData' = BarsOf(inFlight[k].symbol[1], inFlight[k].period,
                                   inFlight[k].interval)
            /\ inFlight' = RemoveAt(inFlight, k)
            /\ cleanSuccess' = inFlight[k].clean
            /\ UNCHANGED pageError
       ELSE /\ pageError' = Some("No data available for this symbol")
            /\ inFlight' = Unclean(RemoveAt(inFlight, k))
            /\ cleanSuccess' = FALSE
            /\ UNCHANGED chartData
    /\ loading' = FALSE
    /\ UNCHANGED <<page, stockSymbols, selectedIndex, currentIndex, selectedPeriod,
                   selectedInterval, rendered>>
    /\ UNCHANGED <<proxyVars, aggVars>>

\* fetch k fails
FetchFails(k) ==
    /\ k \in 1..Len(inFlight)
    /\ pageError' = Some("Failed to fetch stock data")
    /\ inFlight' = Unclean(RemoveAt(inFlight, k))
    /\ cleanSuccess' = FALSE
    /\ loading' = FALSE
    /\ UNCHANGED <<page, stockSymbols, selectedIndex, currentIndex, selectedPeriod,
                   selectedInterval, chartData, rendered>>
    /\ UNCHANGED <<proxyVars, aggVars>>

InitPager ==
    /\ Loaded
    /\ formattedData = <<>>
    /\ interval = "daily"
    /\ timeZone = 0
    /\ sorts = FALSE
    /\ NotCalled
    /\ \E p \in Pages : Mounted(p)

NextPager ==
    \/ \E n \in 1..MaxSymbols : LoadCSV(n)
    \/ HandlePrevious
    \/ HandleNext
    \/ \E newIndex \in 0..(Len(IndexData) - 1) : HandleIndexChange(newIndex)
    \/ \E value \in PagerPeriods : PeriodChange(value)
    \/ \E value \in PagerIntervals : IntervalChange(value)
    \/ Render
    \/ \E k \in 1..MaxFetches, hasData \in BOOLEAN : FetchSucceeds(k, hasData)
    \/ \E k \in 1..MaxFetches : FetchFails(k)

SpecPager == InitPager /\ [][NextPager]_vars

(***************************************************************************)
(* Properties.                                                             *)
(***************************************************************************)
Answer(r) == res[r][1]

Answered(r) == pc[r] = "done" /\ Len(res[r]) = 1

\* slot r takes the step, and no other slot does
SlotState(r) == <<pc[r], req[r], res[r], calls[r], reply[r]>>

StepOf(r) ==
    /\ <<pc[r], res[r], calls[r], reply[r]>>' # <<pc[r], res[r], calls[r], reply[r]>>
    /\ \A s \in Slots \ {r} : SlotState(s)' = SlotState(s)

Distinct(seq) == \A i, j \in 1..Len(seq) : i # j => seq[i] # seq[j]

KeyOf(r) == CacheKey(req[r].query)

\* C1: when a request that was answered 200 is followed by a request with
\* the same method, symbol, startDate and endDate, the second request is
\* answered at once with 200 and the array stored in the cache (the one the
\* first answer carried), and no upstream call is made and the cache is left
\* as it was.
C1_RepeatIsServedFromCache ==
    [][\A r \in Slots :
          (/\ Answered(r)
           /\ Answer(r).status = 200
           /\ req'[r] = req[r]
           /\ StepOf(r))
          => (/\ pc'[r] = "done"
              /\ res'[r] = res[r]
              /\ calls'[r] = 0
              /\ upstreamCalls' = upstreamCalls
              /\ cache' = cache
              /\ Answer(r).body = Some(CacheGet(cache, KeyOf(r))))]_vars

\* C1 witness: one upstream call has been made in all, and the request just
\* answered was served with 200 without an upstream call of its own.
C1_Witness ==
    /\ upstreamCalls = 1
    /\ Len(inserted) = 1
    /\ Answered(1)
    /\ Answer(1).status = 200
    /\ calls[1] = 0
    /\ Answer(1).body = Some(CacheGet(cache, KeyOf(1)))

\* C5: a request whose method is not GET is answered 405 'Method not
\* allowed' whatever its query is, and makes no upstream call.
C5_NonGetIs405 ==
    \A r \in Slots :
        req[r].method \notin {"GET", ""}
        => /\ pc[r] = "done"
           /\ res[r] = <<[status |-> 405, details |-> "Method not allowed",
                          error |-> "", body |-> None]>>
           /\ calls[r] = 0
           /\ reply[r].kind = "none"

\* C5 witness: a POST without a symbol has been answered 405.
C5_Witness ==
    \E r \in Slots :
        /\ req[r].method = "POST"
        /\ req[r].query.symbol = None
        /\ Answered(r)
        /\ Answer(r).status = 405

\* C6: a GET request whose symbol is absent or empty is answered 400
\* 'Symbol is required', whatever startDate and endDate are, without an
\* upstream call.
C6_MissingSymbolIs400 ==
    \A r \in Slots :
        (req[r].method = "GET" /\ req[r].query.symbol \in {None, Some(<<>>)})
        => /\ pc[r] = "done"
           /\ res[r] = <<[status |-> 400, details |-> "Symbol is required",
                          error |-> "", body |-> None]>>
           /\ calls[r] = 0
           /\ reply[r].kind = "none"

\* C6 witness: a GET with an empty symbol has been answered 400.
C6_Witness ==
    \E r \in Slots :
        /\ req[r].method = "GET"
        /\ req[r].query.symbol = Some(<<>>)
        /\ Answered(r)
        /\ Answer(r).status = 400

\* C7: a failed upstream call is answered by its status: 404 gives 404
\* 'Stock symbol not found', 429 gives 429 'Too many requests...', and any
\* other failure (another status, no response at all, an exception while
\* reshaping) gives 500 with the error's message.
C7_FailureIsTranslated ==
    \A r \in Slots :
        /\ (pc[r] = "done" /\ reply[r].kind = "error")
           => LET error == reply[r].error
              IN  /\ Len(res[r]) = 1
                  /\ error.response = Some(404)
                     => (Answer(r).status = 404
                         /\ Answer(r).details = "Stock symbol not found")
                  /\ error.response = Some(429)
                     => (Answer(r).status = 429
                         /\ Answer(r).details = "Too many requests. Please try again later.")
                  /\ error.response \notin {Some(404), Some(429)}
                     => (Answer(r).status = 500 /\ Answer(r).error = error.message)
        /\ (pc[r] = "done" /\ reply[r].kind = "data" /\ reply[r].data \in BrokenPayloads)
           => /\ Len(res[r]) = 1
              /\ Answer(r).status = 500
              /\ Answer(r).error # ""

\* C7 witness: upstream answered 429 and the request was answered 429.
C7_Witness ==
    \E r \in Slots :
        /\ reply[r].kind = "error"
        /\ reply[r].error.response = Some(429)
        /\ Answered(r)
        /\ Answer(r).status = 429

\* C8: a payload without chart, without chart.result, with an empty result
\* list or with a null first result is answered 404 'No data available for
\* this symbol'.
C8_NoResultIs404 ==
    \A r \in Slots :
        (pc[r] = "done" /\ reply[r].kind = "data" /\ reply[r].data \in EmptyPayloads)
        => res[r] = <<[status |-> 404, details |-> "No data available for this symbol",
                       error |-> "", body |-> None]>>

\* C8 witness: upstream answered with a null first result and the request
\* was answered 404.
C8_Witness ==
    \E r \in Slots :
        /\ reply[r].kind = "data"
        /\ reply[r].data = ChartData(Some(<<None>>))
        /\ Answered(r)
        /\ Answer(r).status = 404

\* C10: an invocation makes at most one upstream call: none when it is
\* answered 405, 400 or from the cache, one when it misses; and a failure of
\* that call is answered in the same invocation, which then makes no
\* further call.
C10_NoRetry ==
    \A r \in Slots :
        /\ calls[r] \in {0, 1}
        /\ pc[r] = "awaiting" => (calls[r] = 1 /\ reply[r].kind = "none")
        /\ pc[r] = "done"
           => /\ Len(res[r]) = 1
              /\ Answer(r).status \in {405, 400} => calls[r] = 0
              /\ reply[r].kind = "none" <=> calls[r] = 0
        /\ reply[r].kind = "error"
           => (pc[r] = "done" /\ calls[r] = 1 /\ Answer(r).status \in {404, 429, 500})

\* C10 witness: an upstream call failed without a response and the request
\* was answered 500 after that one call.
C10_Witness ==
    \E r \in Slots :
        /\ reply[r].kind = "error"
        /\ reply[r].error.response = None
        /\ calls[r] = 1
        /\ Answered(r)
        /\ Answer(r).status = 500

\* C2: from an empty cache, once MaxCacheSize + 1 pairwise distinct keys
\* have been inserted, exactly one key has been evicted, it is the first key
\* ever inserted, and the other MaxCacheSize keys are all present (in
\* insertion order); before that, nothing has been evicted.
C2_OverflowEvictsFirstInserted ==
    /\ Len(inserted) <= MaxCacheSize => evicted = <<>>
    /\ (Len(inserted) = MaxCacheSize + 1 /\ Distinct(inserted))
       => /\ evicted = <<inserted[1]>>
          /\ Len(cache) = MaxCacheSize
          /\ \A i \in 1..MaxCacheSize : cache[i].key = inserted[i + 1]

\* C2 witness: the insertion after MaxCacheSize distinct keys has taken
\* place and the first symbol's key is the one evicted.
C2_Witness ==
    /\ Len(inserted) = MaxCacheSize + 1
    /\ Distinct(inserted)
    /\ evicted = <<CacheKey(FillQuery(1))>>
    /\ ~CacheHas(cache, CacheKey(FillQuery(1)))

\* C3 as stated: the cache that remains after an overflowing insertion
\* holds MaxCacheSize + 1 entries (the size is bounded by 101, not by 100).
C3_AsStated ==
    /\ Len(cache) <= MaxCacheSize + 1
    /\ Len(inserted) > MaxCacheSize => Len(cache) = MaxCacheSize + 1

\* C3 amended: after any insertion (set followed by its eviction step) the
\* cache holds at most MaxCacheSize entries: an insertion that makes
\* MaxCacheSize + 1 entries removes the oldest one before the handler
\* answers, so the cache that remains after an overflowing insertion holds
\* exactly MaxCacheSize entries.
C3_SizeIsCappedAtMax ==
    /\ Len(cache) <= MaxCacheSize
    /\ Len(cache) = Len(inserted) - Len(evicted)
    /\ Len(inserted) > MaxCacheSize => Len(cache) = MaxCacheSize

\* C3 witness: two insertions have overflowed the cache, two keys have been
\* evicted and MaxCacheSize entries remain.
C3_Witness ==
    /\ Len(inserted) = MaxCacheSize + 2
    /\ Len(evicted) = 2
    /\ Len(cache) = MaxCacheSize

\* a step in which slot r is answered from the cache
HitStep(r) ==
    /\ pc[r] # "awaiting"
    /\ pc'[r] = "done"
    /\ calls'[r] = 0
    /\ res'[r][1].status = 200
    /\ StepOf(r)

\* a step in which slot r, having missed, stores under a key that is
\* present by now
RewriteStep(r) ==
    /\ pc[r] = "awaiting"
    /\ pc'[r] = "done"
    /\ res'[r][1].status = 200
    /\ \E i \in 1..Len(cache) : cache[i].key = KeyOf(r)

\* C4: a cache hit, and a store under a key that is already present, leave
\* the order of the cache's keys as it was and evict nothing; and the key an
\* overflowing insertion evicts is the oldest key in insertion order,
\* whichever keys have been hit.
C4_EvictionIsByInsertionOrder ==
    [][/\ \A r \in Slots :
             (HitStep(r) \/ RewriteStep(r))
             => /\ CacheKeys(cache') = CacheKeys(cache)
                /\ inserted' = inserted
                /\ evicted' = evicted
       /\ evicted' # evicted
          => evicted' = Append(evicted, inserted[Len(evicted) + 1])]_vars

\* C4 witness: the first symbol's key, the oldest one, has been served from
\* the cache after MaxCacheSize keys were inserted, and it is the key the
\* overflowing insertion evicted.
C4_Witness ==
    /\ evicted = <<CacheKey(FillQuery(1))>>
    /\ \E r \in Slots :
          /\ req[r] = Get(FillQuery(1))
          /\ Answered(r)
          /\ Answer(r).status = 200
          /\ calls[r] = 0
          /\ upstreamCalls > MaxCacheSize

\* the indices of the upstream arrays at which all five fields are truthy
CompleteIndices(quotes) ==
    {i \in 1..Len(quotes.timestamp[1]) :
        \A field \in Fields : quotes.quote[field][i] \notin {None, Some(0)}}

\* C9: the array of a 200 miss answer holds one bar for each index at which
\* open, high, low, close and volume are all truthy, in the order of the
\* indices, and none for an index at which one of them is null or 0.
C9_ReshapeKeepsCompleteIndices ==
    \A r \in Slots :
        (pc[r] = "done" /\ reply[r].kind = "data" /\ Answer(r).status = 200)
        => LET quotes == Quotes(reply[r].data)
               kept == CompleteIndices(quotes)
               bars == Answer(r).body[1]
           IN  /\ Len(bars) = Cardinality(kept)
               /\ \E index \in [1..Len(bars) -> kept] :
                     /\ \A j, k \in 1..Len(bars) : j < k => index[j] < index[k]
                     /\ \A j \in 1..Len(bars) :
                           /\ bars[j].time = quotes.timestamp[1][index[j]] \div SecondsPerDay
                           /\ bars[j].volume = quotes.quote.volume[index[j]][1] \div 1000

\* C9 witness: upstream sent a first day with volume 0 and a complete
\* second day, and the answer holds the second day alone.
C9_Witness ==
    \E r \in Slots :
        /\ reply[r].kind = "data"
        /\ Quotes(reply[r].data).quote.volume[1] = Some(0)
        /\ CompleteIndices(Quotes(reply[r].data)) = {2}
        /\ Answered(r)
        /\ Answer(r).status = 200
        /\ Len(Answer(r).body[1]) = 1
        /\ Answer(r).body[1][1].time = 2

\* both slots r and s asked for the same key, both missed and called
\* upstream, and both have stored and answered 200
BothMissedAndStored(r, s) ==
    /\ r # s
    /\ KeyOf(r) = KeyOf(s)
    /\ \A t \in {r, s} :
          /\ Answered(t)
          /\ calls[t] = 1
          /\ Answer(t).status = 200

\* the cache a single run of slot t's request leaves, started on an empty cache
CacheOfSingleRun(t) == <<[key |-> KeyOf(t), value |-> Answer(t).body[1]]>>

\* C11: a request that checks the cache for a key while another request for
\* that key is still waiting for upstream misses and calls upstream as well;
\* the later of the two stores leaves the keys of the cache and their order
\* as the earlier store left them, evicts nothing, touches no other entry
\* and puts its own array under the key; and when the two requests are all
\* that ever called upstream, the cache they leave is the cache a single
\* run of one of them leaves.
C11_DuplicateStoreIsIdempotent ==
    [][/\ \A r, s \in Slots :
             (r # s /\ pc[s] = "awaiting" /\ ~CacheHas(cache, KeyOf(s))
                 /\ pc[r] # "awaiting" /\ StepOf(r)
                 /\ req'[r] = req[s] /\ MethodAllowed(req[s].method))
             => /\ pc'[r] = "awaiting"
                /\ upstreamCalls' = upstreamCalls + 1
       /\ \A r \in Slots :
             RewriteStep(r)
             => /\ CacheKeys(cache') = CacheKeys(cache)
                /\ inserted' = inserted
                /\ evicted' = evicted
                /\ \A i \in 1..Len(cache) :
                      cache'[i] = IF cache[i].key = KeyOf(r)
                                  THEN [key |-> KeyOf(r), value |-> res'[r][1].body[1]]
                                  ELSE cache[i]
       /\ \A r, s \in Slots :
             (BothMissedAndStored(r, s)' /\ upstreamCalls' = 2)
             => /\ cache' \in {CacheOfSingleRun(r)', CacheOfSingleRun(s)'}
                /\ inserted' = <<KeyOf(r)'>>
                /\ evicted' = <<>>]_vars

\* C11 witness: two requests for the same key both called upstream, upstream
\* answered them with different payloads, both stored, and the cache holds
\* one entry for the key.
C11_Witness ==
    \E r, s \in Slots :
        /\ BothMissedAndStored(r, s)
        /\ upstreamCalls = 2
        /\ reply[r].data # reply[s].data
        /\ Len(cache) = 1
        /\ cache[1].key = KeyOf(r)

\* the input bars are in chronological order
Chronological(array) ==
    \A i, j \in 1..Len(array) : i < j => array[i].time <= array[j].time

\* the period key of the i-th input bar
KeyAt(i) == PeriodKey(formattedData[i], interval, timeZone)

\* the indices of the input bars whose period key is key
Members(key) == {i \in 1..Len(formattedData) : KeyAt(i) = key}

First(indices) == CHOOSE i \in indices : \A j \in indices : i <= j

Last(indices) == CHOOSE i \in indices : \A j \in indices : i >= j

RECURSIVE SumVolume(_, _)
SumVolume(array, indices) ==
    IF indices = {}
    THEN 0
    ELSE LET i == First(indices)
         IN  array[i].volume + SumVolume(array, indices \ {i})

\* the bar the input bars at these indices fold into
FoldOf(indices) ==
    [time   |-> formattedData[First(indices)].time,
     open   |-> formattedData[First(indices)].open,
     high   |-> CHOOSE h \in {formattedData[i].high : i \in indices} :
                    \A i \in indices : formattedData[i].high <= h,
     low    |-> CHOOSE l \in {formattedData[i].low : i \in indices} :
                    \A i \in indices : formattedData[i].low >= l,
     close  |-> formattedData[Last(indices)].close,
     volume |-> SumVolume(formattedData, indices)]

\* C12: aggregateData(bars, 'daily') returns its input: the same bars, as
\* many, in the same order, with the same field values; nothing is bucketed.
C12_DailyReturnsInput ==
    (returned /\ interval = "daily")
    => /\ aggregatedData = formattedData
       /\ Len(aggregatedData) = Len(formattedData)
       /\ periodMap = <<>>

\* C12 witness: a daily call with two bars of one week and one month has
\* returned the two bars.
C12_Witness ==
    /\ returned
    /\ interval = "daily"
    /\ Len(formattedData) = 2
    /\ PeriodKey(formattedData[1], "weekly", timeZone)
          = PeriodKey(formattedData[2], "weekly", timeZone)
    /\ formattedData[1].time < formattedData[2].time
    /\ Len(aggregatedData) = 2

\* C13: for weekly or monthly and bars in chronological order, the output
\* holds exactly one bar for each period key of the input, and that bar is
\* the fold of the input bars that have the key: time and open of the first
\* of them, close of the last, the largest high, the smallest low and the
\* sum of the volumes.
C13_OutputBarIsFoldOfBucket ==
    (returned /\ interval \in {"weekly", "monthly"} /\ Chronological(formattedData))
    => LET keys == {KeyAt(i) : i \in 1..Len(formattedData)}
       IN  /\ Len(aggregatedData) = Cardinality(keys)
           /\ \A key \in keys :
                 \E k \in 1..Len(aggregatedData) :
                    aggregatedData[k] = FoldOf(Members(key))

\* C13 witness: the bars 10/12/9/11/100 at time 1 and 11/13/10/12/200 at
\* time 2, of one week, have been folded weekly into the one bar
\* 10/13/9/12/300 at time 1.
C13_Witness ==
    /\ returned
    /\ interval = "weekly"
    /\ formattedData =
          << [time |-> 1, open |-> 10, high |-> 12, low |-> 9, close |-> 11, volume |-> 100],
             [time |-> 2, open |-> 11, high |-> 13, low |-> 10, close |-> 12, volume |-> 200] >>
    /\ aggregatedData =
          << [time |-> 1, open |-> 10, high |-> 13, low |-> 9, close |-> 12, volume |-> 300] >>

\* C14: for weekly or monthly and bars in chronological order, the volumes
\* of the output add up to the volumes of the input, the largest high of
\* the output is the largest high of the input, and the smallest low of the
\* output is the smallest low of the input.
C14_TotalsAreConserved ==
    (returned /\ interval \in {"weekly", "monthly"} /\ Chronological(formattedData))
    => /\ SumVolume(aggregatedData, 1..Len(aggregatedData))
             = SumVolume(formattedData, 1..Len(formattedData))
       /\ \A i \in 1..Len(formattedData) :
             /\ \E k \in 1..Len(aggregatedData) :
                   aggregatedData[k].high >= formattedData[i].high
             /\ \E k \in 1..Len(aggregatedData) :
                   aggregatedData[k].low <= formattedData[i].low
       /\ \A k \in 1..Len(aggregatedData) :
             /\ \E i \in 1..Len(formattedData) :
                   formattedData[i].high = aggregatedData[k].high
             /\ \E i \in 1..Len(formattedData) :
                   formattedData[i].low = aggregatedData[k].low

\* C14 witness: three bars in chronological order, two of them in one bucket
\* and one in another, have been folded into two bars.
C14_Witness ==
    /\ returned
    /\ interval \in {"weekly", "monthly"}
    /\ Chronological(formattedData)
    /\ Len(formattedData) = 3
    /\ Len(aggregatedData) = 2
    /\ aggregatedData[1].volume + aggregatedData[2].volume = 600

\* the UTC day and the local day of the i-th input bar
UtcDay(i) == formattedData[i].time \div SecondsPerDay

LocalDay(i) == (formattedData[i].time + timeZone) \div SecondsPerDay

\* the day of the week of a day: 0 is Sunday
DayOfWeek(day) == (day + 4) % 7

\* the Monday and the Sunday on or before a day
MondayOf(day) == day - ((day + 3) % 7)

SundayOf(day) == day - ((day + 4) % 7)

PeriodKeys == {periodMap[k].key : k \in 1..Len(periodMap)}

FirstIndices == {i \in 1..Len(formattedData) : \A j \in 1..(i - 1) : KeyAt(j) # KeyAt(i)}

NthFirst(k) ==
    CHOOSE i \in FirstIndices : Cardinality({j \in FirstIndices : j < i}) = k - 1

\* the output bars are in the order in which their keys were first seen
InFirstSeenOrder ==
    /\ Len(aggregatedData) = Cardinality(FirstIndices)
    /\ \A k \in 1..Len(aggregatedData) :
          aggregatedData[k].time = formattedData[NthFirst(k)].time

\* the output bars are in ascending order of their times
InTimeOrder ==
    \A k, l \in 1..Len(aggregatedData) :
        k < l => aggregatedData[k].time < aggregatedData[l].time

\* C17 as stated: for weekly or monthly and any input order, the output bars
\* are in the order in which their bucket keys were first seen in the input.
C17_AsStated ==
    (returned /\ interval \in {"weekly", "monthly"}) => InFirstSeenOrder

\* C17 amended: for weekly or monthly and any input order, the variants
\* that return the buckets as they were collected give the output bars in
\* the order in which their bucket keys were first seen in the input; the
\* variant that sorts what it returns gives the same bars in ascending order
\* of their times, a bar's time being that of the first input bar seen of
\* its bucket.  When the input is chronological the two orders are the same.
C17_OrderIsFirstSeenOrSorted ==
    (returned /\ interval \in {"weekly", "monthly"})
    => /\ ~sorts => InFirstSeenOrder
       /\ sorts
          => /\ InTimeOrder
             /\ Len(aggregatedData) = Cardinality(FirstIndices)
             /\ {aggregatedData[k].time : k \in 1..Len(aggregatedData)}
                   = {formattedData[i].time : i \in FirstIndices}
       /\ Chronological(formattedData) => (InFirstSeenOrder /\ InTimeOrder)

\* C17 witness: the sorting variant was given a bar of a later bucket before
\* a bar of an earlier bucket and has returned the earlier bucket first.
C17_Witness ==
    /\ returned
    /\ interval \in {"weekly", "monthly"}
    /\ sorts
    /\ Len(aggregatedData) = 2
    /\ formattedData[NthFirst(1)].time > formattedData[NthFirst(2)].time
    /\ aggregatedData[1].time = formattedData[NthFirst(2)].time
    /\ aggregatedData[2].time = formattedData[NthFirst(1)].time

\* C18: a call of aggregateData leaves its input as it was, for every
\* interval: as many bars, in the same order, each with the time, open,
\* high, low, close and volume it had, the first bar of each bucket
\* included.
C18_InputIsNotChanged ==
    [][formattedData' = formattedData]_vars

\* C18 witness: a weekly or monthly call has folded two bars into a bucket
\* whose high, close and volume are no longer those of its first bar.
C18_Witness ==
    /\ returned
    /\ interval \in {"weekly", "monthly"}
    /\ Len(formattedData) = 2
    /\ Len(periodMap) = 1
    /\ periodMap[1].value.time = formattedData[1].time
    /\ periodMap[1].value.open = formattedData[1].open
    /\ periodMap[1].value.high > formattedData[1].high
    /\ periodMap[1].value.close # formattedData[1].close
    /\ periodMap[1].value.volume > formattedData[1].volume

\* two requests for the same symbol and the same days: the start date is
\* given as a date, and as the instant at which that date begins
QueryByDate == Query(Some(<<"A">>), Some(<<"D1">>), Some(<<"D2">>))

QueryByInstant == Query(Some(<<"A">>), Some(<<"D1", "T00:00:00.000Z">>), Some(<<"D2">>))

\* C19: the cache key is made of the raw parameter strings: a request that
\* follows a stored request for the same symbol and the same days, with the
\* start date written with a time part, asks upstream for the very same
\* thing and yet misses the cache and calls upstream; when it is answered
\* 200 the cache holds two entries, one under each spelling.
C19_KeyIsNotNormalized ==
    [][\A r \in Slots :
          /\ (/\ req[r] = Get(QueryByDate)
              /\ Answered(r)
              /\ Answer(r).status = 200
              /\ Len(cache) = 1
              /\ req'[r] = Get(QueryByInstant))
             => /\ UpstreamRequest(QueryByInstant) = UpstreamRequest(QueryByDate)
                /\ pc'[r] = "awaiting"
                /\ calls'[r] = 1
                /\ upstreamCalls' = upstreamCalls + 1
          /\ (/\ req[r] = Get(QueryByInstant)
              /\ pc[r] = "awaiting"
              /\ CacheKeys(cache) = << <<"A", "-", "D1", "-", "D2">> >>
              /\ pc'[r] = "done"
              /\ res'[r][1].status = 200)
             => /\ Len(cache') = 2
                /\ cache'[1] = cache[1]
                /\ cache'[2].key = <<"A", "-", "D1", "T00:00:00.000Z", "-", "D2">>
                /\ cache'[2].value = res'[r][1].body[1]]_vars

\* C19 witness: the request with the time part has been answered 200 after
\* a call of its own, and the cache holds an entry under each spelling.
C19_Witness ==
    /\ CacheKeys(cache) = << <<"A", "-", "D1", "-", "D2">>,
                             <<"A", "-", "D1", "T00:00:00.000Z", "-", "D2">> >>
    /\ req[1] = Get(QueryByInstant)
    /\ Answered(1)
    /\ Answer(1).status = 200
    /\ calls[1] = 1
    /\ upstreamCalls = 2

\* a step in which slot r, having missed, stores under a key that is not
\* in the cache
InsertStep(r) ==
    /\ pc[r] = "awaiting"
    /\ pc'[r] = "done"
    /\ res'[r][1].status = 200
    /\ ~CacheHas(cache, KeyOf(r))

\* C20: an entry leaves the cache only in a step that inserts a new key
\* into a cache of MaxCacheSize entries, and then it is the oldest entry
\* alone that leaves; a hit and an error answer leave the cache as it is, an
\* entry's array changes only when a request that missed stores under its
\* key, and a request for a key that is in the cache is answered from the
\* cache without a call upstream.
C20_EntriesLeaveOnlyByEviction ==
    [][/\ cache' # cache
          => \/ /\ Len(cache') >= Len(cache)
                /\ \A i \in 1..Len(cache) :
                      /\ cache'[i].key = cache[i].key
                      /\ cache'[i].value # cache[i].value
                         => \E r \in Slots : RewriteStep(r) /\ KeyOf(r) = cache[i].key
             \/ /\ Len(cache) = MaxCacheSize
                /\ \E r \in Slots : InsertStep(r)
                /\ \A i \in 2..Len(cache) : cache'[i - 1] = cache[i]
                /\ ~CacheHas(cache', OldestKey(cache))
                /\ evicted' = Append(evicted, OldestKey(cache))
       /\ \A r \in Slots :
             (StepOf(r) /\ pc'[r] = "done" /\ (HitStep(r) \/ res'[r][1].status # 200))
             => cache' = cache
       /\ \A r \in Slots :
             (/\ StepOf(r)
              /\ pc[r] # "awaiting"
              /\ MethodAllowed(req'[r].method)
              /\ ~IsFalsyString(req'[r].query.symbol)
              /\ CacheHas(cache, CacheKey(req'[r].query)))
             => /\ pc'[r] = "done"
                /\ res'[r] = <<OkBody(CacheGet(cache, CacheKey(req'[r].query)))>>
                /\ upstreamCalls' = upstreamCalls]_vars

\* C20 witness: the first symbol's key was served from the cache, left the
\* cache with the first overflowing insertion, and the request for it that
\* followed missed and stored it again as the newest entry.
C20_Witness ==
    /\ Len(evicted) >= 1
    /\ evicted[1] = CacheKey(FillQuery(1))
    /\ Len(inserted) > MaxCacheSize + 1
    /\ inserted[Len(inserted)] = CacheKey(FillQuery(1))
    /\ cache[Len(cache)].key = CacheKey(FillQuery(1))
    /\ \E r \in Slots \ {1} :
          /\ Answered(r)
          /\ Answer(r).status = 200
          /\ calls[r] = 1

\* the answer the handler gives to a payload
AnswerTo(data) ==
    IF HasNoResult(data)
    THEN NoDataResponse
    ELSE IF ReshapeThrows(Quotes(data))
    THEN CatchResponse([response |-> None, message |-> ReshapeMessage(Quotes(data))])
    ELSE OkBody(ProcessedData(Quotes(data)))

\* the payload without its adjusted closes
WithoutAdjclose(data) == IF HasNoResult(data) THEN data ELSE WithAdjclose(data, None)

Statuses == {200, 400, 404, 405, 429, 500}

\* C22: an invocation of the handler that has finished has sent exactly one
\* response, with status 200, 400, 404, 405, 429 or 500; an invocation that
\* is waiting for upstream has sent none; and no step sends more than one
\* response.
C22_ExactlyOneResponse ==
    [][\A r \in Slots :
          /\ pc'[r] = "done" => (Len(res'[r]) = 1 /\ res'[r][1].status \in Statuses)
          /\ pc'[r] = "awaiting" => res'[r] = <<>>
          /\ (pc[r] = "awaiting" /\ pc'[r] = "done") => Len(res'[r]) = Len(res[r]) + 1]_vars

\* C22 witness: the reshaping threw inside the try block and the invocation
\* has finished with the one response of the catch block.
C22_Witness ==
    /\ pc[1] = "done"
    /\ reply[1].kind = "data"
    /\ ~HasNoResult(reply[1].data)
    /\ ReshapeThrows(Quotes(reply[1].data))
    /\ Len(res[1]) = 1
    /\ res[1][1].status = 500

\* C23: the cache changes only in the step in which a request that missed
\* is answered 200: a step that answers 405, 400, 404, 429 or 500, a step
\* that answers from the cache and the step that sends the call upstream
\* leave the keys, their order and the values as they were, and a request
\* that failed has no entry afterwards unless it had one before.
C23_CacheIsWrittenOnlyOn200Miss ==
    [][/\ cache' # cache
          => \E r \in Slots :
                /\ pc[r] = "awaiting"
                /\ pc'[r] = "done"
                /\ res'[r][1].status = 200
                /\ calls[r] = 1
                /\ cache' = EvictOldest(CacheSet(cache, KeyOf(r), res'[r][1].body[1]))
       /\ \A r \in Slots :
             (StepOf(r) /\ pc'[r] = "done" /\ res'[r][1].status \in {400, 404, 405, 429, 500})
             => /\ cache' = cache
                /\ CacheHas(cache', KeyOf(r)') <=> CacheHas(cache, KeyOf(r)')
       /\ \A r \in Slots : HitStep(r) => cache' = cache]_vars

\* C23 witness: with an entry in the cache, a request for another key was
\* answered 404 because upstream had no data, and the cache holds the one
\* entry and nothing under the key of the failed request.
C23_Witness ==
    /\ Len(cache) = 1
    /\ Answered(1)
    /\ Answer(1).status = 404
    /\ reply[1].kind = "data"
    /\ calls[1] = 1
    /\ ~CacheHas(cache, KeyOf(1))

\* C24 as stated: requests whose (symbol, startDate, endDate) differ have
\* different cache keys, so that a request which follows a stored request
\* for another triple is not answered from that entry: it misses and calls
\* upstream.
C24_AsStated ==
    [][\A r \in Slots :
          (/\ Answered(r)
           /\ Answer(r).status = 200
           /\ calls[r] = 1
           /\ Len(cache) = 1
           /\ req'[r].query # req[r].query
           /\ MethodAllowed(req'[r].method)
           /\ ~IsFalsyString(req'[r].query.symbol))
          => /\ CacheKey(req'[r].query) # CacheKey(req[r].query)
             /\ pc'[r] = "awaiting"
             /\ upstreamCalls' = upstreamCalls + 1]_vars

\* the bars of the page's selection: of the symbol at currentIndex, for the
\* selected period and interval
InRange == currentIndex \in 0..(Len(stockSymbols) - 1)

Selection == BarsOf(stockSymbols[currentIndex + 1], selectedPeriod, selectedInterval)

\* C25 as stated: on the page that fetches on each click, once the chart
\* data are the response for the symbol at currentIndex with the selected
\* period, the response of another fetch that completes later does not
\* replace them.
C25_AsStated ==
    [][(/\ page = "part_002"
        /\ InRange
        /\ chartData = Selection
        /\ Len(inFlight') < Len(inFlight))
       => chartData' = Selection]_vars

\* C26 as stated: on the pages that fetch, while a fetch is in flight the
\* loading flag is true: when one of several overlapping fetches completes,
\* the flag stays true.
C26_AsStated ==
    [][(/\ page \in FetchPages
        /\ Len(inFlight') < Len(inFlight)
        /\ inFlight' # <<>>)
       => loading']_vars

\* the symbols the page pages through
PagerSymbols == IF page = "index" THEN IndexSymbols(selectedIndex) ELSE stockSymbols

\* C27 as stated: whatever Previous, Next and index-selection events were
\* handled, two clicks by the handlers of one render included, the pager
\* index is an index of the list of symbols.
C27_AsStated ==
    Len(PagerSymbols) > 0 => currentIndex \in 0..(Len(PagerSymbols) - 1)

\* C30 as stated: on the page with the interval select, once a fetch that
\* started after the last failure has succeeded, the error state is null
\* and the chart is shown in place of the error text.
C30_AsStated ==
    (page = "part_003" /\ cleanSuccess) => pageError = None

Sane(bar) ==
    /\ bar.high >= Max(bar.open, bar.close)
    /\ bar.low <= Min(bar.open, bar.close)

StrictlyIncreasing(array) ==
    \A i, j \in 1..Len(array) : i < j => array[i].time < array[j].time

\* C28: weekly and monthly aggregation of bars that each have
\* high >= max(open, close) and low <= min(open, close), at strictly
\* increasing times, returns bars that each have high >= max(open, close)
\* and low <= min(open, close), at strictly increasing times.
C28_SanityIsPreserved ==
    (/\ returned
     /\ interval \in {"weekly", "monthly"}
     /\ \A i \in 1..Len(formattedData) : Sane(formattedData[i])
     /\ StrictlyIncreasing(formattedData))
    => /\ \A k \in 1..Len(aggregatedData) : Sane(aggregatedData[k])
       /\ StrictlyIncreasing(aggregatedData)

\* C28 witness: three bars at increasing times, whose closes rise above the
\* high of the first, were folded into one bar, which is sane.
C28_Witness ==
    /\ returned
    /\ interval \in {"weekly", "monthly"}
    /\ Len(formattedData) = 3
    /\ StrictlyIncreasing(formattedData)
    /\ formattedData[3].close > formattedData[1].high
    /\ Len(aggregatedData) = 1
    /\ Sane(aggregatedData[1])
    /\ aggregatedData[1].close = formattedData[3].close

\* C29: a request whose upstream call completes or fails in the end gets
\* its response in the end, whatever happens to the other requests; and as
\* long as the upstream call of a request has not completed or failed, the
\* request stays without a response (nothing times out or cancels it).
C29_AnsweredWhenUpstreamSettles ==
    /\ [](pc[1] = "awaiting" => <>(Answered(1)))
    /\ [][\A r \in Slots :
             (pc[r] = "awaiting" /\ reply'[r] = reply[r])
             => (pc'[r] = "awaiting" /\ res'[r] = <<>>)]_vars

\* C29 witness: a request is waiting for its upstream call and has no
\* response, while the request of slot 1, which also called upstream, has
\* been answered.
C29_Witness ==
    /\ \E r \in Slots : r # 1 /\ pc[r] = "awaiting" /\ res[r] = <<>>
    /\ Answered(1)
    /\ calls[1] = 1
    /\ reply[1].kind # "none"

====
